---- MODULE Spec2Model ----
(***************************************************************************)
(* A model of the address formatter agent (AddressFormatterAgent): the     *)
(* correction call and the stats it records, the decomposition of a        *)
(* corrected address (formatAddress), the geocode cascade of /search, and  *)
(* the /format-address and /stats handlers.                                *)
(*                                                                         *)
(* A string is a sequence of characters, and a character is a              *)
(* one-character string: a printable ASCII character, "\t", "\n", "\f" or  *)
(* "\r".  A character that has no such literal is named by its code point: *)
(* "U+0060" is the back quote, "U+000B" the vertical tab, "U+00A0" the     *)
(* no-break space, and so on (UnicodeSpaces lists the white space).  The   *)
(* alphabet of the model is ASCII from the tab on and that white space.    *)
(* An optional value (a field that may be undefined) is a sequence of      *)
(* length 0 or 1.                                                          *)
(***************************************************************************)
EXTENDS Integers, Sequences, FiniteSets, TLC

(***************************************************************************)
(* Strings                                                                 *)
(***************************************************************************)

undefined == <<>>

Some(v) == <<v>>

\* JavaScript truthiness of an optional string: defined and not "".
Truthy(o) == o # undefined /\ o[1] # <<>>

UpperChars == <<"A","B","C","D","E","F","G","H","I","J","K","L","M",
                "N","O","P","Q","R","S","T","U","V","W","X","Y","Z">>

LowerChars == <<"a","b","c","d","e","f","g","h","i","j","k","l","m",
                "n","o","p","q","r","s","t","u","v","w","x","y","z">>

DigitChars == <<"0","1","2","3","4","5","6","7","8","9">>

Range(f) == {f[i] : i \in DOMAIN f}

IsUpper(c) == c \in Range(UpperChars)

IsLower(c) == c \in Range(LowerChars)

IsDigit(c) == c \in Range(DigitChars)

\* \w of a JavaScript regular expression
IsWordChar(c) == IsUpper(c) \/ IsLower(c) \/ IsDigit(c) \/ c = "_"

\* The white space that has no literal, with its code point: the vertical
\* tab, U+00A0, U+1680, U+2000 to U+200A, the line and paragraph separators
\* U+2028 and U+2029, U+202F, U+205F, U+3000 and the byte order mark U+FEFF.
UnicodeSpaces == <<
    [char |-> "U+000B", code |-> 11],
    [char |-> "U+00A0", code |-> 160],
    [char |-> "U+1680", code |-> 5760],
    [char |-> "U+2000", code |-> 8192],
    [char |-> "U+2001", code |-> 8193],
    [char |-> "U+2002", code |-> 8194],
    [char |-> "U+2003", code |-> 8195],
    [char |-> "U+2004", code |-> 8196],
    [char |-> "U+2005", code |-> 8197],
    [char |-> "U+2006", code |-> 8198],
    [char |-> "U+2007", code |-> 8199],
    [char |-> "U+2008", code |-> 8200],
    [char |-> "U+2009", code |-> 8201],
    [char |-> "U+200A", code |-> 8202],
    [char |-> "U+2028", code |-> 8232],
    [char |-> "U+2029", code |-> 8233],
    [char |-> "U+202F", code |-> 8239],
    [char |-> "U+205F", code |-> 8287],
    [char |-> "U+3000", code |-> 12288],
    [char |-> "U+FEFF", code |-> 65279] >>

\* \s of a JavaScript regular expression, which is also the white space of
\* String.prototype.trim: [\t\n\v\f\r \u00a0\u1680\u2000-\u200a\u2028\u2029
\* \u202f\u205f\u3000\ufeff]
IsSpace(c) ==
    \/ c \in {" ", "\t", "\n", "\f", "\r"}
    \/ \E i \in DOMAIN UnicodeSpaces : UnicodeSpaces[i].char = c

LowerChar(c) ==
    IF IsUpper(c)
    THEN LowerChars[CHOOSE i \in DOMAIN UpperChars : UpperChars[i] = c]
    ELSE c

\* String.prototype.toLowerCase
toLowerCase(s) == [i \in 1..Len(s) |-> LowerChar(s[i])]

\* s.replace(/\s+/g, ' '): every run of white space becomes one space
RECURSIVE CollapseFrom(_, _)
CollapseFrom(s, i) ==
    IF i > Len(s) THEN <<>>
    ELSE IF IsSpace(s[i])
         THEN IF i > 1 /\ IsSpace(s[i-1])
              THEN CollapseFrom(s, i + 1)
              ELSE <<" ">> \o CollapseFrom(s, i + 1)
         ELSE <<s[i]>> \o CollapseFrom(s, i + 1)

collapseSpaces(s) == CollapseFrom(s, 1)

\* String.prototype.trim
trim(s) ==
    LET keep == {i \in 1..Len(s) : ~IsSpace(s[i])}
    IN  IF keep = {} THEN <<>>
        ELSE LET lo == CHOOSE i \in keep : \A j \in keep : i <= j
                 hi == CHOOSE i \in keep : \A j \in keep : j <= i
             IN  SubSeq(s, lo, hi)

\* w occurs in s starting at index i
StartsWithAt(s, i, w) ==
    /\ i + Len(w) - 1 <= Len(s)
    /\ \A k \in 1..Len(w) : s[i + k - 1] = w[k]

\* String.prototype.includes
includes(s, w) == \E i \in 1..(Len(s) + 1) : StartsWithAt(s, i, w)

\* \b just before index i of s (i = Len(s) + 1 is the end of the string)
WordBoundary(s, i) ==
    LET before == i > 1 /\ IsWordChar(s[i-1])
        after  == i <= Len(s) /\ IsWordChar(s[i])
    IN  before # after

\* The first index >= i of s that holds no white space (\s* is greedy).
RECURSIVE SkipSpaces(_, _)
SkipSpaces(s, i) ==
    IF i <= Len(s) /\ IsSpace(s[i]) THEN SkipSpaces(s, i + 1) ELSE i

\* The first index >= i of s that holds no digit (\d+ is greedy).
RECURSIVE SkipDigits(_, _)
SkipDigits(s, i) ==
    IF i <= Len(s) /\ IsDigit(s[i]) THEN SkipDigits(s, i + 1) ELSE i


(***************************************************************************)
(* formatAddress: noise stripping                                          *)
(***************************************************************************)

\* The rest of /\b(?:no\.|number)?\s*\d+[a-z]?\b/ from index j on, after the
\* optional prefix: the index just after the match, or 0 when there is none.
\* \s* and \d+ are greedy and no shorter run can match: what follows a
\* shorter run is a white space or a digit.
NumberTailEnd(s, j) ==
    LET k == SkipSpaces(s, j)
        d == SkipDigits(s, k)
    IN  IF d = k THEN 0
        ELSE IF d <= Len(s) /\ IsLower(s[d]) /\ WordBoundary(s, d + 1) THEN d + 1
        ELSE IF WordBoundary(s, d) THEN d
        ELSE 0

prefixNo == <<"n","o",".">>

prefixNumber == <<"n","u","m","b","e","r">>

\* A match of /\b(?:no\.|number)?\s*\d+[a-z]?\b/ starting at index i: the index
\* just after it, or 0.  The prefixed alternatives are tried first.
HouseNumberEnd(s, i) ==
    IF ~WordBoundary(s, i) THEN 0
    ELSE LET withNo     == IF StartsWithAt(s, i, prefixNo)
                           THEN NumberTailEnd(s, i + Len(prefixNo)) ELSE 0
             withNumber == IF StartsWithAt(s, i, prefixNumber)
                           THEN NumberTailEnd(s, i + Len(prefixNumber)) ELSE 0
         IN  IF withNo > 0 THEN withNo
             ELSE IF withNumber > 0 THEN withNumber
             ELSE NumberTailEnd(s, i)

\* /\b(?:off|adjacent to|beside|near|opposite|behind|in front of|next to)\b\s*/gi
directionalPrefixes == <<
    <<"o","f","f">>,
    <<"a","d","j","a","c","e","n","t"," ","t","o">>,
    <<"b","e","s","i","d","e">>,
    <<"n","e","a","r">>,
    <<"o","p","p","o","s","i","t","e">>,
    <<"b","e","h","i","n","d">>,
    <<"i","n"," ","f","r","o","n","t"," ","o","f">>,
    <<"n","e","x","t"," ","t","o">> >>

\* /\b(?:the|at|on|in)\b\s*/gi
commonFillers == <<
    <<"t","h","e">>,
    <<"a","t">>,
    <<"o","n">>,
    <<"i","n">> >>

\* w occurs in s at index i, ignoring case (the i flag); w is lower case
StartsWithAtIgnoreCase(s, i, w) ==
    /\ i + Len(w) - 1 <= Len(s)
    /\ \A k \in 1..Len(w) : LowerChar(s[i + k - 1]) = w[k]

\* A match of /\b(?:w1|w2|...)\b\s*/i starting at index i: the index just
\* after it (the white space that follows is part of the match), or 0.
FillerEnd(words, s, i) ==
    LET hits == {n \in DOMAIN words :
                    /\ StartsWithAtIgnoreCase(s, i, words[n])
                    /\ WordBoundary(s, i + Len(words[n]))}
    IN  IF ~WordBoundary(s, i) \/ hits = {} THEN 0
        ELSE LET n == CHOOSE m \in hits : \A o \in hits : m <= o
             IN  SkipSpaces(s, i + Len(words[n]))

\* s.replace(/.../g, '') for the house-number pattern: matches are looked for
\* left to right in the original string, each search starting where the
\* previous match ended.
RECURSIVE RemoveHouseNumbersFrom(_, _)
RemoveHouseNumbersFrom(s, i) ==
    IF i > Len(s) THEN <<>>
    ELSE LET e == HouseNumberEnd(s, i)
         IN  IF e > i THEN RemoveHouseNumbersFrom(s, e)
             ELSE <<s[i]>> \o RemoveHouseNumbersFrom(s, i + 1)

removeHouseNumbers(s) == RemoveHouseNumbersFrom(s, 1)

\* s.replace(/.../gi, '') for a filler pattern
RECURSIVE RemoveFillersFrom(_, _, _)
RemoveFillersFrom(words, s, i) ==
    IF i > Len(s) THEN <<>>
    ELSE LET e == FillerEnd(words, s, i)
         IN  IF e > i THEN RemoveFillersFrom(words, s, e)
             ELSE <<s[i]>> \o RemoveFillersFrom(words, s, i + 1)

removeFillers(words, s) == RemoveFillersFrom(words, s, 1)

\* const cleanedAddress = address.toLowerCase().replace(/\s+/g, ' ').trim()
cleanedAddress(address) == trim(collapseSpaces(toLowerCase(address)))

\* const withoutDescriptives = cleanedAddress.replace(...)...trim()
withoutDescriptives(address) ==
    trim(collapseSpaces(
        removeFillers(commonFillers,
            removeFillers(directionalPrefixes,
                removeHouseNumbers(cleanedAddress(address))))))

(***************************************************************************)
(* formatAddress: segments                                                 *)
(***************************************************************************)

\* the characters of /[,\/\\]/
IsSeparator(c) == c \in {",", "/", "\\"}

\* s.split(/[,\/\\]/g): the pieces between separators, empty ones included
RECURSIVE SplitFrom(_, _, _)
SplitFrom(s, i, piece) ==
    IF i > Len(s) THEN <<piece>>
    ELSE IF IsSeparator(s[i])
         THEN <<piece>> \o SplitFrom(s, i + 1, <<>>)
         ELSE SplitFrom(s, i + 1, Append(piece, s[i]))

split(s) == SplitFrom(s, 1, <<>>)

\* .map(part => part.trim()).filter(part => part.length > 0)
RECURSIVE TrimAndFilter(_)
TrimAndFilter(pieces) ==
    IF pieces = <<>> THEN <<>>
    ELSE LET p == trim(Head(pieces))
         IN  IF Len(p) > 0 THEN <<p>> \o TrimAndFilter(Tail(pieces))
             ELSE TrimAndFilter(Tail(pieces))

parts(address) == TrimAndFilter(split(withoutDescriptives(address)))

kwDistrict == <<"d","i","s","t","r","i","c","t">>

kwArea == <<"a","r","e","a">>

kwQuarter == <<"q","u","a","r","t","e","r">>

\* parts[1].includes('district') || ... (parts[1] is the second segment)
isNeighbourhood(part) ==
    includes(part, kwDistrict) \/ includes(part, kwArea) \/ includes(part, kwQuarter)

\* queryParts.join(', ')
RECURSIVE join(_)
join(qs) ==
    IF qs = <<>> THEN <<>>
    ELSE IF Len(qs) = 1 THEN qs[1]
    ELSE qs[1] \o <<",", " ">> \o join(Tail(qs))


(***************************************************************************)
(* formatAddress: positional assignment (lines 159-179) and the queries    *)
(***************************************************************************)

\* if (parts.length >= 1) formattedAddress.street = parts[0]
assignStreet(p) == IF Len(p) >= 1 THEN Some(p[1]) ELSE undefined

\* the branch of line 162: the second segment holds a neighbourhood keyword
assignNeighbourhood(p) ==
    IF Len(p) >= 2 /\ isNeighbourhood(p[2]) THEN Some(p[2]) ELSE undefined

\* Mutant of assignTown: the town is the second segment also after a
\* neighbourhood keyword (no shift)
assignTownUnshifted(p) == IF Len(p) >= 2 THEN Some(p[2]) ELSE undefined

\* lines 160-168: the town is the third segment after a neighbourhood, the
\* second segment otherwise
assignTown(p) ==
    IF Len(p) >= 2
    THEN IF isNeighbourhood(p[2])
         THEN IF Len(p) >= 3 THEN Some(p[3]) ELSE undefined
         ELSE Some(p[2])
    ELSE undefined

\* lines 169-173
assignLocalGovernment(p, town) ==
    IF Len(p) >= 3 /\ ~Truthy(town) THEN Some(p[3])
    ELSE IF Len(p) >= 4 THEN Some(p[4])
    ELSE undefined

\* lines 175-179
assignState(p, localGovernment) ==
    IF Len(p) >= 4 /\ ~Truthy(localGovernment) THEN Some(p[4])
    ELSE IF Len(p) >= 5 THEN Some(p[5])
    ELSE undefined

\* Mutant of queryParts: the town is pushed before the neighbourhood
queryPartsTownFirst(street, neighbourhood, town, localGovernment, state) ==
    (IF Truthy(street) THEN street ELSE <<>>)
    \o (IF Truthy(town) THEN town ELSE <<>>)
    \o (IF Truthy(neighbourhood) THEN neighbourhood ELSE <<>>)
    \o (IF Truthy(localGovernment) THEN localGovernment ELSE <<>>)
    \o (IF Truthy(state) THEN state ELSE <<>>)

\* lines 182-187: the truthy components, in the fixed order
queryParts(street, neighbourhood, town, localGovernment, state) ==
    (IF Truthy(street) THEN street ELSE <<>>)
    \o (IF Truthy(neighbourhood) THEN neighbourhood ELSE <<>>)
    \o (IF Truthy(town) THEN town ELSE <<>>)
    \o (IF Truthy(localGovernment) THEN localGovernment ELSE <<>>)
    \o (IF Truthy(state) THEN state ELSE <<>>)

\* component ? component : undefined
orUndefined(component) == IF Truthy(component) THEN component ELSE undefined

\* lines 192-196
alternativeQueriesOf(neighbourhood, town, localGovernment) ==
    [neighbourhoodOnly   |-> orUndefined(neighbourhood),
     townOnly            |-> orUndefined(town),
     localGovernmentOnly |-> orUndefined(localGovernment)]

\* lines 153-198, given the segments p: a component that was not assigned is
\* undefined
formatParts(p) ==
    LET street          == assignStreet(p)
        neighbourhood   == assignNeighbourhood(p)
        town            == assignTown(p)
        localGovernment == assignLocalGovernment(p, town)
        state           == assignState(p, localGovernment)
    IN  [street             |-> street,
         neighbourhood      |-> neighbourhood,
         town               |-> town,
         localGovernment    |-> localGovernment,
         state              |-> state,
         formattedQuery     |-> join(queryParts(street, neighbourhood, town,
                                                localGovernment, state)),
         alternativeQueries |-> alternativeQueriesOf(neighbourhood, town,
                                                     localGovernment)]

\* formatAddress(address) for a string
formatAddress(address) == formatParts(parts(address))

(***************************************************************************)
(* generateNominatimUrl                                                    *)
(***************************************************************************)

\* The printable ASCII characters in code order: AsciiChars[i] has the
\* character code i + 31 (the space is 32, the tilde 126).  "U+0060" is the
\* back quote.
AsciiChars == <<
    " ","!","\"","#","$","%","&","'","(",")","*","+",
    ",","-",".","/","0","1","2","3","4","5","6","7",
    "8","9",":",";","<","=",">","?","@","A","B","C",
    "D","E","F","G","H","I","J","K","L","M","N","O",
    "P","Q","R","S","T","U","V","W","X","Y","Z","[",
    "\\","]","^","_","U+0060","a","b","c","d","e","f","g",
    "h","i","j","k","l","m","n","o","p","q","r","s",
    "t","u","v","w","x","y","z","{","|","}","~" >>

\* The code point of a character of the model's alphabet
codePoint(c) ==
    CASE c = "\t" -> 9
      [] c = "\n" -> 10
      [] c = "\f" -> 12
      [] c = "\r" -> 13
      [] \E i \in DOMAIN UnicodeSpaces : UnicodeSpaces[i].char = c ->
            UnicodeSpaces[CHOOSE i \in DOMAIN UnicodeSpaces :
                              UnicodeSpaces[i].char = c].code
      [] \E i \in DOMAIN AsciiChars : AsciiChars[i] = c ->
            31 + (CHOOSE i \in DOMAIN AsciiChars : AsciiChars[i] = c)

\* The UTF-8 octets of a code point below 2^16
utf8(n) ==
    IF n < 128 THEN <<n>>
    ELSE IF n < 2048 THEN <<192 + (n \div 64), 128 + (n % 64)>>
    ELSE <<224 + (n \div 4096), 128 + ((n \div 64) % 64), 128 + (n % 64)>>

HexDigits == <<"0","1","2","3","4","5","6","7","8","9","A","B","C","D","E","F">>

\* "%XX" with upper-case hexadecimal digits
percentOctet(b) == <<"%", HexDigits[(b \div 16) + 1], HexDigits[(b % 16) + 1]>>

RECURSIVE percentOctets(_)
percentOctets(bs) ==
    IF bs = <<>> THEN <<>> ELSE percentOctet(Head(bs)) \o percentOctets(Tail(bs))

\* The characters encodeURIComponent leaves alone: A-Z a-z 0-9 - _ . ! ~ * ' ( )
IsUnreserved(c) ==
    \/ IsUpper(c) \/ IsLower(c) \/ IsDigit(c)
    \/ c \in {"-", "_", ".", "!", "~", "*", "'", "(", ")"}

\* encodeURIComponent of one character: the unreserved characters are kept,
\* every other character becomes the percent escapes of its UTF-8 octets
encodeChar(c) == IF IsUnreserved(c) THEN <<c>> ELSE percentOctets(utf8(codePoint(c)))

RECURSIVE encodeURIComponent(_)
encodeURIComponent(s) ==
    IF s = <<>> THEN <<>> ELSE encodeChar(Head(s)) \o encodeURIComponent(Tail(s))

\* `https://nm.latlens.com/nominatim/search?q=${encodeURIComponent(query)}&format=json`
generateNominatimUrl(query) ==
    [base   |-> "https://nm.latlens.com/nominatim/search",
     q      |-> encodeURIComponent(query),
     format |-> "json"]

(***************************************************************************)
(* Bounds and program constants                                            *)
(***************************************************************************)

\* .slice(-100): the history keeps the last 100 processed addresses
HistoryLimit == 100

\* .slice(-10): /stats returns the 10 most recent
RecentLimit == 10

\* data.length < 2: fewer results than this start the fallback queries
MinResults == 2

\* the longest result list the geocode provider returns
MaxResults == 2

\* correction calls started in a run of Spec
MaxCalls == 1

\* correction calls started in a run of SpecStats
MaxStatsCalls == 102

\* correction calls that fail, and correction calls that report corrections,
\* in a run of SpecStats
MaxStatsFailures == 1

MaxStatsCorrected == 2

(***************************************************************************)
(* Inputs                                                                  *)
(***************************************************************************)

addrFull == <<"A","l","l","e","n"," ","A","v","e",","," ","G","R","A"," ","a","r","e","a",","," ","I","k","e","j","a",","," ","L","a","g","o","s">>

addrTown == <<"N","o","."," ","5"," ","A","l","l","e","n"," ","A","v","e",","," ","I","k","e","j","a">>

addrArea == <<"A","l","l","e","n"," ","A","v","e"," ","/"," ","G","R","A"," ","Q","u","a","r","t","e","r">>

addrStreet == <<"A","l","l","e","n"," ","A","v","e">>

addrNoise == <<"t","h","e">>

\* the request slots
Reqs == {"r1", "r2"}

\* lastN(s, n) is s.slice(-n)
lastN(s, n) == IF Len(s) <= n THEN s ELSE SubSeq(s, Len(s) - n + 1, Len(s))

(***************************************************************************)
(* JSON values received from the geocode provider                          *)
(***************************************************************************)

JsonNull == [type |-> "null"]

JsonNumber(n) == [type |-> "number", value |-> n]

JsonBoolean(b) == [type |-> "boolean", value |-> b]

JsonString(s) == [type |-> "string", value |-> s]

JsonArray(items) == [type |-> "array", items |-> items]

\* An object, of which only the member named length is kept: undefined when
\* the object has none, or a number, a string, a boolean or null.
JsonObject(length) == [type |-> "object", length |-> length]

\* What await fetch(url) settles with.  rejects: fetch throws (the provider
\* is unreachable); ok: the HTTP status of the response is a success.
GeoHead(rejects, ok) == [rejects |-> rejects, ok |-> ok]

GeoHeads == {GeoHead(TRUE, FALSE), GeoHead(FALSE, FALSE), GeoHead(FALSE, TRUE)}

\* What await response.json() settles with.  body: "invalid" when the body is
\* no JSON, else the type of the JSON value; count: the number of elements of
\* an array, the number of characters of a string, the value of a number;
\* length: the member named length of an object.
GeoBody(body, count, length) == [body |-> body, count |-> count, length |-> length]

\* the member named length of the objects received
ObjectLengths ==
    {undefined, Some(JsonNumber(1)), Some(JsonString(<<"1">>)), Some(JsonNull)}

\* the bodies of the replies to a fallback query: no JSON, or a list
FallbackBodies ==
    {GeoBody("invalid", 0, undefined)}
    \cup {GeoBody("array", n, undefined) : n \in 0..MaxResults}

\* the bodies of the replies to the primary query
GeoBodies ==
    FallbackBodies
    \cup {GeoBody("null", 0, undefined), GeoBody("string", 1, undefined)}
    \cup {GeoBody("object", 0, l) : l \in ObjectLengths}

\* The reply of the geocode provider to one fetch, as the request has seen it
\* so far: the head, and the body once response.json() has settled ("pending"
\* until then, "none" when fetch threw).
GeoReply(rejects, ok, body, count, length) ==
    [rejects |-> rejects, ok |-> ok, body |-> body, count |-> count,
     length |-> length]

headReply(head) ==
    GeoReply(head.rejects, head.ok, IF head.rejects THEN "none" ELSE "pending",
             0, undefined)

withBody(reply, b) ==
    [reply EXCEPT !.body = b.body, !.count = b.count, !.length = b.length]

\* The value response.json() resolves to: the match records of an array are
\* told apart by the query they answer and their rank.
bodyOf(url, reply) ==
    CASE reply.body = "array"  ->
            JsonArray([i \in 1..reply.count |-> [q |-> url.q, rank |-> i]])
      [] reply.body = "object" -> JsonObject(reply.length)
      [] reply.body = "string" -> JsonString([i \in 1..reply.count |-> "x"])
      [] reply.body = "number" -> JsonNumber(reply.count)
      [] reply.body = "null"   -> JsonNull

\* await response.json() throws
bodyThrows(b) == b.body = "invalid"

digitValue(c) == (CHOOSE i \in DOMAIN DigitChars : DigitChars[i] = c) - 1

\* the number a string of decimal digits denotes
RECURSIVE digitsValue(_)
digitsValue(s) ==
    IF s = <<>> THEN 0
    ELSE 10 * digitsValue(SubSeq(s, 1, Len(s) - 1)) + digitValue(s[Len(s)])

\* ToNumber of a value that is compared with a number.  nan: the value
\* converts to NaN.  A string is stripped of white space first; the strings
\* the model converts are the empty string and the strings of decimal digits.
toNumber(v) ==
    IF v = undefined THEN [nan |-> TRUE, value |-> 0]
    ELSE IF v[1].type = "number" THEN [nan |-> FALSE, value |-> v[1].value]
    ELSE IF v[1].type = "null" THEN [nan |-> FALSE, value |-> 0]
    ELSE IF v[1].type = "boolean"
         THEN [nan |-> FALSE, value |-> IF v[1].value THEN 1 ELSE 0]
    ELSE CASE v[1].type = "string"
                 /\ \A i \in 1..Len(trim(v[1].value)) : IsDigit(trim(v[1].value)[i]) ->
                    [nan |-> FALSE, value |-> digitsValue(trim(v[1].value))]

\* data.length: undefined for a number, a boolean and an object without such
\* a member (data is not null)
lengthOf(data) ==
    CASE data.type = "array"  -> Some(JsonNumber(Len(data.items)))
      [] data.type = "string" -> Some(JsonNumber(Len(data.value)))
      [] data.type = "object" -> data.length
      [] OTHER                -> undefined

\* Mutant of fewResults: data.length <= 2
fewResultsAtMost(data) ==
    ~toNumber(lengthOf(data)).nan /\ toNumber(lengthOf(data)).value <= MinResults

\* data.length < 2: a comparison with NaN is false
fewResults(data) ==
    ~toNumber(lengthOf(data)).nan /\ toNumber(lengthOf(data)).value < MinResults

\* data.length throws a TypeError when data is null
lengthThrows(data) == data.type = "null"


(***************************************************************************)
(* The correction call                                                     *)
(***************************************************************************)

\* The reply of the model to ai.chat.completions.create.  rejects: the call
\* throws; content: "invalid" when response.choices[0].message.content is no
\* JSON, "null" when it is the JSON null, "object" when it is the JSON text of
\* an object with the three fields, any of which may be missing (undefined);
\* "structured" when it is that object itself and not its text, "embedded"
\* when it is prose around the text of the object, with escaped quotes and
\* newlines.
AiReply(rejects, content, correctedAddress, corrections, confidence) ==
    [rejects |-> rejects, content |-> content,
     correctedAddress |-> correctedAddress, corrections |-> corrections,
     confidence |-> confidence]

AiFailures ==
    {AiReply(TRUE, "invalid", undefined, undefined, undefined),
     AiReply(FALSE, "invalid", undefined, undefined, undefined),
     AiReply(FALSE, "null", undefined, undefined, undefined)}

AiObjects(addresses, correctionLists) ==
    {AiReply(FALSE, "object", a, c, Some(90)) :
        a \in addresses, c \in correctionLists}

\* the object of the reply in the other two shapes: JSON.parse takes neither
AiUnparsed(addresses) ==
    {AiReply(FALSE, k, a, Some(<<>>), Some(90)) :
        k \in {"structured", "embedded"}, a \in addresses}

\* this.state before the first setState: the class declares no initialState,
\* so that the agent has no state until init() has run
noState == [unset |-> TRUE]

\* init(), lines 31-38: the state it sets
initialState ==
    [processedAddresses |-> <<>>,
     correctionStats    |-> [spellingCorrected      |-> 0,
                             missingComponentsAdded |-> 0,
                             totalProcessed         |-> 0]]

\* lines 117-123: what the catch block returns
fallbackResult(address) ==
    [correctedAddress |-> Some(address),
     corrections      |-> Some(<<>>),
     confidence       |-> Some(0)]

\* JSON.parse(...) or result.corrections.length throws: the content is no
\* JSON text (an object is turned into the string "[object Object]" first),
\* result is null, or result.corrections is undefined
correctionThrows(reply) ==
    \/ reply.rejects
    \/ reply.content # "object"
    \/ reply.corrections = undefined

\* line 100: this.state.correctionStats throws a TypeError when this.state is
\* undefined
statsThrows(st) == st = noState

\* result.corrections.length > 0
hasCorrections(result) == Len(result.corrections[1]) > 0

\* lines 100-104: the counters after a parsed correction
updateStats(stats, result) ==
    [spellingCorrected      |-> IF hasCorrections(result)
                                THEN stats.spellingCorrected + 1
                                ELSE stats.spellingCorrected,
     missingComponentsAdded |-> stats.missingComponentsAdded,
     totalProcessed         |-> stats.totalProcessed + 1]

\* Mutant of appendProcessed: .slice(0, 100), which keeps the oldest entries
appendProcessedKeepFirst(processedAddresses, entry) ==
    SubSeq(Append(processedAddresses, entry), 1,
           IF Len(processedAddresses) + 1 <= HistoryLimit
           THEN Len(processedAddresses) + 1 ELSE HistoryLimit)

\* Mutant of appendProcessed: [entry, ...processedAddresses], newest first
appendProcessedNewestFirst(processedAddresses, entry) ==
    lastN(<<entry>> \o processedAddresses, HistoryLimit)

\* Mutant of appendProcessed: the .slice(-100) is missing
appendProcessedUntrimmed(processedAddresses, entry) ==
    Append(processedAddresses, entry)

\* lines 109-113: [...processedAddresses, entry].slice(-100)
appendProcessed(processedAddresses, entry) ==
    lastN(Append(processedAddresses, entry), HistoryLimit)

\* the entry of lines 109-113
historyEntry(address, result, now) ==
    [original |-> address, corrected |-> result.correctedAddress, timestamp |-> now]

\* lines 97-116 when nothing throws: the value returned and the state set
recordCorrection(st, now, address, reply) ==
    LET result == [correctedAddress |-> reply.correctedAddress,
                   corrections      |-> reply.corrections,
                   confidence       |-> reply.confidence]
    IN  [result   |-> result,
         state    |-> [correctionStats |->
                           updateStats(st.correctionStats, result),
                       processedAddresses |->
                           appendProcessed(st.processedAddresses,
                                           historyEntry(address, result, now))],
         recorded |-> TRUE]

\* Mutant of correctAddress: the catch block records the fallback in the
\* history
correctAddressRecordingFailures(st, now, address, reply) ==
    IF statsThrows(st)
    THEN [result |-> fallbackResult(address), state |-> st, recorded |-> FALSE]
    ELSE IF correctionThrows(reply)
    THEN [result   |-> fallbackResult(address),
          state    |-> [st EXCEPT !.processedAddresses =
                            appendProcessed(@, historyEntry(address,
                                                            fallbackResult(address),
                                                            now))],
          recorded |-> FALSE]
    ELSE recordCorrection(st, now, address, reply)

\* correctAddress(address) from line 97 to its return, once the model has
\* replied, in agent state st at time now: the value returned, the agent
\* state left, and whether a history entry was recorded.
correctAddress(st, now, address, reply) ==
    IF correctionThrows(reply) \/ statsThrows(st)
    THEN [result |-> fallbackResult(address), state |-> st, recorded |-> FALSE]
    ELSE recordCorrection(st, now, address, reply)

\* formatAddress(correctedAddress) throws: undefined has no toLowerCase
formatThrows(correctedAddress) == correctedAddress = undefined

(***************************************************************************)
(* State                                                                   *)
(***************************************************************************)

VARIABLES
    state,   \* this.state: processedAddresses and correctionStats, or noState
    req,     \* per request slot: where the handler is and its locals
    clock,   \* the value of new Date()
    tally,   \* bookkeeping: correction calls started, returned, ...
    log,     \* bookkeeping: every history entry ever recorded, in order
    call     \* a call of formatAddress studied on its own: argument and results

vars == <<state, req, clock, tally, log, call>>

noAlternativeResults == [town |-> undefined, neighborhood |-> undefined]

\* A slot with no request in it.  returned: the value correctAddress has
\* returned and the handler has not yet taken; decomposition: the same for
\* formatAddress; correction, formatted, data: the handler's locals
\* correctionResult, formattedAddress, data.
idleRequest ==
    [pc                 |-> "idle",
     route              |-> "none",
     malformed          |-> FALSE,
     input              |-> undefined,
     before             |-> undefined,
     aiReply            |-> undefined,
     returned           |-> undefined,
     correction         |-> undefined,
     decomposition      |-> undefined,
     formatted          |-> undefined,
     fetched            |-> <<>>,
     replies            |-> <<>>,
     data               |-> undefined,
     alternativeResults |-> noAlternativeResults,
     response           |-> undefined]

\* no call of formatAddress is studied on its own
noCall ==
    [pc |-> "none", segments |-> <<>>, clean |-> FALSE, address |-> undefined,
     formatted |-> undefined, again |-> undefined]

\* inits: init() was called "never", "once" or "again"; cold: a request has
\* arrived before the first call of init()
noTally ==
    [started |-> 0, returned |-> 0, nonEmpty |-> 0, failed |-> 0,
     inits |-> "never", cold |-> FALSE]

\* the agent after construction: init() has not run, no request in its slots
InitAgent ==
    /\ state = noState
    /\ req = [r \in Reqs |-> idleRequest]
    /\ clock = 1
    /\ tally = noTally
    /\ log = <<>>

Init == InitAgent /\ call = noCall

\* init(), lines 29-39: whenever it is called, the history is emptied and the
\* counters are set to zero
init ==
    /\ state' = initialState
    /\ tally' = [tally EXCEPT !.inits = IF @ = "never" THEN "once" ELSE "again"]
    /\ UNCHANGED <<req, clock, log, call>>

(***************************************************************************)
(* Responses                                                               *)
(***************************************************************************)

\* new Response(JSON.stringify({ error }), { status })
errorResponse(status, error) ==
    [threw |-> FALSE, status |-> status, error |-> error, body |-> undefined]

\* new Response(JSON.stringify(body), { status: 200 })
okResponse(body) ==
    [threw |-> FALSE, status |-> 200, error |-> "", body |-> Some(body)]

\* the handler itself throws: no Response is built
thrownResponse ==
    [threw |-> TRUE, status |-> 0, error |-> "TypeError", body |-> undefined]

\* lines 53-56: the answer to any other path or method
textResponse ==
    okResponse([text |-> "Nominatim Address Formatter API - AI Agent Edition"])

\* Object.keys(alternativeResults).length > 0 ? alternativeResults : undefined
alternativeResultsField(alternativeResults) ==
    IF alternativeResults.town # undefined \/ alternativeResults.neighborhood # undefined
    THEN Some(alternativeResults)
    ELSE undefined

\* lines 301-312
searchResponse(q, result, formatted, data, alternativeResults) ==
    okResponse([original           |-> q,
                corrected          |-> result.correctedAddress,
                corrections        |-> result.corrections,
                confidence         |-> result.confidence,
                formatted          |-> formatted,
                results            |-> data,
                alternativeResults |-> alternativeResultsField(alternativeResults)])

\* lines 228-237
alternativeUrlsOf(alternativeQueries) ==
    [neighbourhoodOnly   |-> IF Truthy(alternativeQueries.neighbourhoodOnly)
                             THEN Some(generateNominatimUrl(alternativeQueries.neighbourhoodOnly[1]))
                             ELSE undefined,
     townOnly            |-> IF Truthy(alternativeQueries.townOnly)
                             THEN Some(generateNominatimUrl(alternativeQueries.townOnly[1]))
                             ELSE undefined,
     localGovernmentOnly |-> IF Truthy(alternativeQueries.localGovernmentOnly)
                             THEN Some(generateNominatimUrl(alternativeQueries.localGovernmentOnly[1]))
                             ELSE undefined]

\* lines 239-250
formatResponse(address, result, formatted) ==
    okResponse([original        |-> address,
                corrected       |-> result.correctedAddress,
                corrections     |-> result.corrections,
                confidence      |-> result.confidence,
                formatted       |-> formatted,
                nominatimUrl    |-> generateNominatimUrl(formatted.formattedQuery),
                alternativeUrls |-> alternativeUrlsOf(formatted.alternativeQueries)])

\* Mutant of statsResponse: .slice(0, 10), the 10 oldest entries
statsResponseOldest(st) ==
    okResponse([stats           |-> st.correctionStats,
                recentAddresses |-> SubSeq(st.processedAddresses, 1,
                                           IF Len(st.processedAddresses) <= RecentLimit
                                           THEN Len(st.processedAddresses)
                                           ELSE RecentLimit)])

\* lines 324-330
statsResponse(st) ==
    okResponse([stats           |-> st.correctionStats,
                recentAddresses |-> lastN(st.processedAddresses, RecentLimit)])


(***************************************************************************)
(* Handlers.  An action is what one handler does between two suspensions:  *)
(* from the arrival of the request or the settling of the promise it       *)
(* awaits, to its next await or its return.  The callee of an await (an    *)
(* async method of the agent) runs up to its own first await in the        *)
(* caller's step; when it returns, the caller resumes in a later step.     *)
(* The steps of different requests interleave freely.                      *)
(***************************************************************************)

finish(rq, response) == [rq EXCEPT !.pc = "done", !.response = Some(response)]

\* onRequest, lines 43-51: a request arrives in slot rq for route
arrive(rq, route) == [rq EXCEPT !.route = route]

\* bookkeeping of an arrival
arrived == [tally EXCEPT !.cold = @ \/ state = noState]

\* fetch(this.generateNominatimUrl(query)) is issued and awaited at pc
issueFetch(rq, pc, query) ==
    [rq EXCEPT !.pc = pc, !.fetched = Append(@, generateNominatimUrl(query))]

\* correctAddress(input), lines 66-95: the model is asked about input and the
\* call is awaited.  The agent state of that moment is noted in the slot.
awaitCorrection(rq, input) ==
    [rq EXCEPT !.pc = "correcting", !.input = input, !.before = Some(state)]

\* handleSearch, lines 262-272: GET /search with q (undefined when absent, ""
\* when empty), up to the await of the correction call
handleSearch(r, q, maxCalls) ==
    /\ req[r].pc = "idle"
    /\ IF ~Truthy(q)
       THEN /\ req' = [req EXCEPT ![r] =
                        finish([arrive(@, "/search") EXCEPT !.input = q],
                               errorResponse(400, "Query parameter is required"))]
            /\ tally' = arrived
       ELSE /\ tally.started < maxCalls
            /\ req' = [req EXCEPT ![r] = awaitCorrection(arrive(@, "/search"), q)]
            /\ tally' = [arrived EXCEPT !.started = @ + 1]
    /\ UNCHANGED <<state, clock, log, call>>

\* handleFormatAddress, lines 208-209: POST /format-address, up to the await
\* of request.json()
handleFormatAddress(r) ==
    /\ req[r].pc = "idle"
    /\ req' = [req EXCEPT ![r] = [arrive(@, "/format-address") EXCEPT !.pc = "reading"]]
    /\ tally' = arrived
    /\ UNCHANGED <<state, clock, log, call>>

\* handleFormatAddress, lines 209-219: request.json() has settled, up to the
\* await of the correction call.  body.json: "invalid" when the body is no
\* JSON (request.json() throws), "null" when it is the JSON null
\* (body.address throws), "object" otherwise; body.address: the address
\* member of the body (undefined when absent, "" when empty).
bodyRead(r, body, maxCalls) ==
    /\ req[r].pc = "reading"
    /\ IF body.json # "object"
       THEN /\ req' = [req EXCEPT ![r] =
                        finish([@ EXCEPT !.malformed = body.json = "invalid"],
                               errorResponse(500, "Failed to process address"))]
            /\ UNCHANGED tally
       ELSE IF ~Truthy(body.address)
       THEN /\ req' = [req EXCEPT ![r] =
                        finish([@ EXCEPT !.input = body.address],
                               errorResponse(400, "Address is required"))]
            /\ UNCHANGED tally
       ELSE /\ tally.started < maxCalls
            /\ req' = [req EXCEPT ![r] = awaitCorrection(@, body.address)]
            /\ tally' = [tally EXCEPT !.started = @ + 1]
    /\ UNCHANGED <<state, clock, log, call>>

\* getStats, lines 323-331: GET /stats.  this.state.correctionStats throws
\* when this.state is undefined.
getStats(r) ==
    /\ req[r].pc = "idle"
    /\ req' = [req EXCEPT ![r] =
                finish(arrive(@, "/stats"),
                       IF state = noState THEN thrownResponse
                       ELSE statsResponse(state))]
    /\ tally' = arrived
    /\ UNCHANGED <<state, clock, log, call>>

\* onRequest, lines 52-57: any other path or method
otherRoute(r) ==
    /\ req[r].pc = "idle"
    /\ req' = [req EXCEPT ![r] = finish(arrive(@, "other"), textResponse)]
    /\ tally' = arrived
    /\ UNCHANGED <<state, clock, log, call>>

\* The effects of a correction call of request r that returned out (see
\* correctAddress) on the model's reply.  The reply and the value returned
\* are noted in the slot; the handler has not resumed yet.  new Date() reads
\* the clock, which may or may not have advanced when it is read next.
applyCorrection(r, reply, out, ticks, maxFailures, maxCorrected) ==
    LET corrected == out.recorded /\ hasCorrections(out.result)
    IN  /\ ~out.recorded => tally.failed < maxFailures
        /\ corrected => tally.nonEmpty < maxCorrected
        /\ state' = out.state
        /\ \E t \in ticks : clock' = IF out.recorded THEN clock + t ELSE clock
        /\ log' = IF out.recorded
                  THEN Append(log, historyEntry(req[r].input[1], out.result, clock))
                  ELSE log
        /\ tally' = [tally EXCEPT
                       !.returned = @ + 1,
                       !.nonEmpty = IF corrected THEN @ + 1 ELSE @,
                       !.failed   = IF out.recorded THEN @ ELSE @ + 1]
        /\ req' = [req EXCEPT ![r] =
                     [@ EXCEPT !.pc = "corrected",
                               !.aiReply = Some(reply),
                               !.returned = Some(out.result)]]
        /\ UNCHANGED call

\* Mutant of correctionReturns: the agent state is read before the await of
\* line 71 and the update of lines 100-114 is made on that copy
correctionReturnsStale(r, reply, ticks, maxFailures, maxCorrected) ==
    /\ req[r].pc = "correcting"
    /\ applyCorrection(r, reply,
                       correctAddress(req[r].before[1], clock, req[r].input[1], reply),
                       ticks, maxFailures, maxCorrected)

\* The model replies to the correction call of request r: correctAddress runs
\* from line 97 to its return without an await.
correctionReturns(r, reply, ticks, maxFailures, maxCorrected) ==
    /\ req[r].pc = "correcting"
    /\ applyCorrection(r, reply,
                       correctAddress(state, clock, req[r].input[1], reply),
                       ticks, maxFailures, maxCorrected)

\* Lines 272-273 and 219-222: the handler resumes with the value
\* correctAddress returned and calls formatAddress, which runs to its return
\* (it awaits nothing); the handler awaits it.
resumeCorrected(r) ==
    /\ req[r].pc = "corrected"
    /\ LET result == req[r].returned[1]
       IN  req' = [req EXCEPT ![r] =
                    [@ EXCEPT !.pc = "formatting",
                              !.correction = Some(result),
                              !.decomposition =
                                  IF formatThrows(result.correctedAddress)
                                  THEN Some([threw |-> TRUE, value |-> undefined])
                                  ELSE Some([threw |-> FALSE,
                                             value |-> Some(formatAddress(
                                                 result.correctedAddress[1]))])]]
    /\ UNCHANGED <<state, clock, tally, log, call>>

\* handleSearch, lines 274-277: the primary query is fetched
fetchPrimary(rq, formatted) ==
    issueFetch([rq EXCEPT !.formatted = Some(formatted)],
               "primary", formatted.formattedQuery)

\* handleSearch, lines 273-277, when formatAddress has settled.  The call of
\* formatAddress is outside the try block: what it throws, the handler
\* throws.
searchAfterFormat(rq) ==
    IF rq.decomposition[1].threw
    THEN finish(rq, thrownResponse)
    ELSE fetchPrimary(rq, rq.decomposition[1].value[1])

\* handleFormatAddress, lines 225-250
formatRespond(rq, formatted) ==
    finish([rq EXCEPT !.formatted = Some(formatted)],
           formatResponse(rq.input[1], rq.correction[1], formatted))

\* handleFormatAddress, lines 222-257, when formatAddress has settled
formatAfterFormat(rq) ==
    IF rq.decomposition[1].threw
    THEN finish(rq, errorResponse(500, "Failed to process address"))
    ELSE formatRespond(rq, rq.decomposition[1].value[1])

\* Lines 273-277 and 222-250: the handler resumes with the value
\* formatAddress returned.
resumeFormatted(r) ==
    /\ req[r].pc = "formatting"
    /\ req' = [req EXCEPT ![r] =
                 IF @.route = "/search" THEN searchAfterFormat(@)
                 ELSE formatAfterFormat(@)]
    /\ UNCHANGED <<state, clock, tally, log, call>>

\* the array of results in data, empty when data is no array
resultItems(data) == IF data.type = "array" THEN data.items ELSE <<>>

\* Mutant of fetchFailed: a failed fallback call is swallowed and the results
\* obtained so far are returned
fetchFailedPartial(rq) ==
    IF rq.data # undefined
    THEN finish(rq, searchResponse(rq.input, rq.correction[1], rq.formatted[1],
                                   rq.data[1], rq.alternativeResults))
    ELSE finish(rq, errorResponse(500, "Failed to fetch from Nominatim"))

\* Mutant of respond: an empty primary result list is replaced by the results
\* of the townOnly query
respondReplacingEmpty(rq) ==
    finish(rq, searchResponse(rq.input, rq.correction[1], rq.formatted[1],
                              IF rq.data[1] = JsonArray(<<>>)
                                 /\ rq.alternativeResults.town # undefined
                              THEN rq.alternativeResults.town[1]
                              ELSE rq.data[1],
                              rq.alternativeResults))

\* lines 313-318: the catch block of handleSearch
fetchFailed(rq) == finish(rq, errorResponse(500, "Failed to fetch from Nominatim"))

\* lines 301-312: the 200 response of handleSearch
respond(rq) ==
    finish(rq, searchResponse(rq.input, rq.correction[1], rq.formatted[1],
                              rq.data[1], rq.alternativeResults))

\* line 288: if (alternativeQueries?.townOnly)
wantsTown(formatted) == Truthy(formatted.alternativeQueries.townOnly)

\* line 294: if (alternativeQueries?.neighbourhoodOnly)
wantsNeighbourhood(formatted) == Truthy(formatted.alternativeQueries.neighbourhoodOnly)

\* Mutant of afterTown: the neighbourhood query is skipped when the town query
\* returned enough results
afterTownShortCircuit(rq) ==
    IF /\ wantsNeighbourhood(rq.formatted[1])
       /\ (rq.alternativeResults.town = undefined
           \/ Len(resultItems(rq.alternativeResults.town[1])) < MinResults)
    THEN issueFetch(rq, "neighbourhood",
                    rq.formatted[1].alternativeQueries.neighbourhoodOnly[1])
    ELSE respond(rq)

\* Mutant of afterTown: the last fallback asks for localGovernmentOnly
afterTownLocalGovernment(rq) ==
    IF Truthy(rq.formatted[1].alternativeQueries.localGovernmentOnly)
    THEN issueFetch(rq, "neighbourhood",
                    rq.formatted[1].alternativeQueries.localGovernmentOnly[1])
    ELSE respond(rq)

\* lines 294-308, reached with the town query answered or skipped: the
\* neighbourhood query is fetched, or the response is built
afterTown(rq) ==
    IF wantsNeighbourhood(rq.formatted[1])
    THEN issueFetch(rq, "neighbourhood",
                    rq.formatted[1].alternativeQueries.neighbourhoodOnly[1])
    ELSE respond(rq)

\* lines 284-308, reached with data set
afterPrimary(rq) ==
    IF lengthThrows(rq.data[1]) THEN fetchFailed(rq)
    ELSE IF fewResults(rq.data[1])
         THEN IF wantsTown(rq.formatted[1])
              THEN issueFetch(rq, "town", rq.formatted[1].alternativeQueries.townOnly[1])
              ELSE afterTown(rq)
         ELSE respond(rq)

\* await fetch(url) has settled with head in slot rq: the catch block when it
\* threw, else response.json() is called and awaited at pc
headReturns(rq, head, pc) ==
    IF head.rejects
    THEN fetchFailed([rq EXCEPT !.replies = Append(@, headReply(head))])
    ELSE [rq EXCEPT !.pc = pc, !.replies = Append(@, headReply(head))]

\* the reply of slot rq that is being read, with its body b
lastReplyRead(rq, b) ==
    [rq EXCEPT !.replies[Len(rq.replies)] = withBody(@, b)]

\* the value response.json() has resolved to in slot rq
jsonOf(rq) == bodyOf(rq.fetched[Len(rq.fetched)], rq.replies[Len(rq.replies)])

\* Mutant of primaryReturns: the search is counted once more when its
\* primary query is answered
primaryReturnsCounting(r, head) ==
    /\ req[r].pc = "primary"
    /\ req' = [req EXCEPT ![r] = headReturns(@, head, "primaryBody")]
    /\ state' = IF state = noState THEN state
                ELSE [state EXCEPT !.correctionStats.totalProcessed = @ + 1]
    /\ UNCHANGED <<clock, tally, log, call>>

\* line 277: the geocode provider replies to the primary query
primaryReturns(r, head) ==
    /\ req[r].pc = "primary"
    /\ req' = [req EXCEPT ![r] = headReturns(@, head, "primaryBody")]
    /\ UNCHANGED <<state, clock, tally, log, call>>

\* lines 278-308: the body of the reply to the primary query has been read
primaryBody(r, b) ==
    /\ req[r].pc = "primaryBody"
    /\ LET rq == lastReplyRead(req[r], b)
       IN  req' = [req EXCEPT ![r] =
                    IF bodyThrows(b) THEN fetchFailed(rq)
                    ELSE afterPrimary([rq EXCEPT !.data = Some(jsonOf(rq))])]
    /\ UNCHANGED <<state, clock, tally, log, call>>

\* line 290: the geocode provider replies to the townOnly query
townReturns(r, head) ==
    /\ req[r].pc = "town"
    /\ req' = [req EXCEPT ![r] = headReturns(@, head, "townBody")]
    /\ UNCHANGED <<state, clock, tally, log, call>>

\* lines 291-308: the body of the reply to the townOnly query has been read
townBody(r, b) ==
    /\ req[r].pc = "townBody"
    /\ LET rq == lastReplyRead(req[r], b)
       IN  req' = [req EXCEPT ![r] =
                    IF bodyThrows(b) THEN fetchFailed(rq)
                    ELSE afterTown([rq EXCEPT !.alternativeResults.town =
                                      Some(jsonOf(rq))])]
    /\ UNCHANGED <<state, clock, tally, log, call>>

\* line 296: the geocode provider replies to the neighbourhoodOnly query
neighbourhoodReturns(r, head) ==
    /\ req[r].pc = "neighbourhood"
    /\ req' = [req EXCEPT ![r] = headReturns(@, head, "neighbourhoodBody")]
    /\ UNCHANGED <<state, clock, tally, log, call>>

\* lines 297-312: the body of the reply to the neighbourhoodOnly query has
\* been read
neighbourhoodBody(r, b) ==
    /\ req[r].pc = "neighbourhoodBody"
    /\ LET rq == lastReplyRead(req[r], b)
       IN  req' = [req EXCEPT ![r] =
                    IF bodyThrows(b) THEN fetchFailed(rq)
                    ELSE respond([rq EXCEPT !.alternativeResults.neighborhood =
                                    Some(jsonOf(rq))])]
    /\ UNCHANGED <<state, clock, tally, log, call>>

\* The response of a finished request has been delivered: its slot is free.
retire(r) ==
    /\ req[r].pc = "done"
    /\ req' = [req EXCEPT ![r] = idleRequest]
    /\ UNCHANGED <<state, clock, tally, log, call>>

(***************************************************************************)
(* Spec: one request at a time, every kind of input and reply, on an agent *)
(* whose init() has run once, before the first request                     *)
(***************************************************************************)

\* the advances of the clock between two evaluations of new Date(): two
\* entries may carry the same timestamp
Ticks == {0, 1}

Queries == {undefined, Some(<<>>), Some(addrTown), Some(addrNoise)}

Bodies ==
    {[json |-> "invalid", address |-> undefined],
     [json |-> "null", address |-> undefined],
     [json |-> "object", address |-> undefined],
     [json |-> "object", address |-> Some(<<>>)],
     [json |-> "object", address |-> Some(addrTown)]}

AiReplies ==
    AiFailures
    \cup AiUnparsed({Some(addrFull)})
    \cup AiObjects({undefined, Some(addrFull), Some(addrArea)},
                   {undefined, Some(<<>>), Some(<<"spelling">>)})

\* init() has run: the agent takes requests
serving == tally.inits # "never"

Next ==
    \/ ~serving /\ init
    \/ \E r \in {"r1"} :
        \/ \E q \in Queries : serving /\ handleSearch(r, q, MaxCalls)
        \/ serving /\ handleFormatAddress(r)
        \/ \E b \in Bodies : bodyRead(r, b, MaxCalls)
        \/ serving /\ getStats(r)
        \/ serving /\ otherRoute(r)
        \/ \E a \in AiReplies : correctionReturns(r, a, Ticks, MaxCalls, MaxCalls)
        \/ resumeCorrected(r)
        \/ resumeFormatted(r)
        \/ \E h \in GeoHeads : primaryReturns(r, h)
        \/ \E b \in GeoBodies : primaryBody(r, b)
        \/ \E h \in GeoHeads : townReturns(r, h)
        \/ \E b \in FallbackBodies : townBody(r, b)
        \/ \E h \in GeoHeads : neighbourhoodReturns(r, h)
        \/ \E b \in FallbackBodies : neighbourhoodBody(r, b)
        \/ retire(r)

Spec == Init /\ [][Next]_vars

(***************************************************************************)
(* SpecStats: long runs of correction calls, to fill the history.  init()  *)
(* runs once, before the first request arrives, and the clock advances     *)
(* between two calls.                                                      *)
(***************************************************************************)

StatsTicks == {1}

StatsBodies == {[json |-> "object", address |-> Some(addrStreet)]}

StatsAiReplies ==
    {AiReply(TRUE, "invalid", undefined, undefined, undefined)}
    \cup AiObjects({Some(addrStreet)}, {Some(<<>>), Some(<<"spelling">>)})

NextStats ==
    \/ ~serving /\ init
    \/ \E r \in {"r1"} :
        \/ serving /\ handleFormatAddress(r)
        \/ \E b \in StatsBodies : bodyRead(r, b, MaxStatsCalls)
        \/ serving /\ getStats(r)
        \/ \E a \in StatsAiReplies :
              correctionReturns(r, a, StatsTicks, MaxStatsFailures, MaxStatsCorrected)
        \/ resumeCorrected(r)
        \/ resumeFormatted(r)
        \/ retire(r)

SpecStats == Init /\ [][NextStats]_vars


(***************************************************************************)
(* SpecConcurrent: two requests in flight, interleaved at their awaits,    *)
(* on an agent whose init() has run once, before the first request         *)
(***************************************************************************)

\* correction calls started in a run of SpecConcurrent
MaxConcurrentCalls == 2

ConcurrentQueries == {Some(addrTown)}

ConcurrentBodies == {[json |-> "object", address |-> Some(addrStreet)]}

ConcurrentAiReplies ==
    {AiReply(TRUE, "invalid", undefined, undefined, undefined)}
    \cup AiObjects({Some(addrArea)}, {Some(<<>>), Some(<<"spelling">>)})

ConcurrentGeoHeads == {GeoHead(TRUE, FALSE), GeoHead(FALSE, TRUE)}

ConcurrentGeoBodies == {GeoBody("array", 1, undefined)}

NextConcurrent ==
    \/ ~serving /\ init
    \/ \E r \in Reqs :
        \/ \E q \in ConcurrentQueries : serving /\ handleSearch(r, q, MaxConcurrentCalls)
        \/ serving /\ handleFormatAddress(r)
        \/ \E b \in ConcurrentBodies : bodyRead(r, b, MaxConcurrentCalls)
        \/ serving /\ getStats(r)
        \/ \E a \in ConcurrentAiReplies :
              correctionReturns(r, a, Ticks, MaxConcurrentCalls, MaxConcurrentCalls)
        \/ resumeCorrected(r)
        \/ resumeFormatted(r)
        \/ \E h \in ConcurrentGeoHeads : primaryReturns(r, h)
        \/ \E b \in ConcurrentGeoBodies : primaryBody(r, b)
        \/ \E h \in ConcurrentGeoHeads : townReturns(r, h)
        \/ \E b \in ConcurrentGeoBodies : townBody(r, b)
        \/ \E h \in ConcurrentGeoHeads : neighbourhoodReturns(r, h)
        \/ \E b \in ConcurrentGeoBodies : neighbourhoodBody(r, b)
        \/ retire(r)

SpecConcurrent == Init /\ [][NextConcurrent]_vars

(***************************************************************************)
(* SpecStatsConcurrent: long runs of correction calls that end with two    *)
(* requests in flight, to fill the history and cross its limit under       *)
(* interleaving                                                            *)
(***************************************************************************)

\* correction calls started one at a time before the second slot takes
\* requests
SoloCalls == 97

\* slot r takes a new request: once init() has run, and the second slot once
\* SoloCalls correction calls have been started
slotOpen(r) == serving /\ (r = "r1" \/ tally.started >= SoloCalls)

NextStatsConcurrent ==
    \/ ~serving /\ init
    \/ \E r \in Reqs :
        \/ slotOpen(r) /\ handleFormatAddress(r)
        \/ \E b \in StatsBodies : bodyRead(r, b, MaxStatsCalls)
        \/ slotOpen(r) /\ getStats(r)
        \/ \E a \in StatsAiReplies :
              correctionReturns(r, a, StatsTicks, MaxStatsFailures, MaxStatsCorrected)
        \/ resumeCorrected(r)
        \/ resumeFormatted(r)
        \/ retire(r)

SpecStatsConcurrent == Init /\ [][NextStatsConcurrent]_vars

(***************************************************************************)
(* SpecLifecycle: init() is a public method that nothing in the program    *)
(* calls.  Here it runs at any moment and any number of times, or never:   *)
(* before the first request, between two requests, and while a correction  *)
(* call is in flight.  One request at a time, no geocode call.             *)
(***************************************************************************)

\* correction calls started in a run of SpecLifecycle
MaxLifecycleCalls == 2

NextLifecycle ==
    \/ init
    \/ \E r \in {"r1"} :
        \/ handleFormatAddress(r)
        \/ \E b \in Bodies : bodyRead(r, b, MaxLifecycleCalls)
        \/ getStats(r)
        \/ otherRoute(r)
        \/ \E a \in AiReplies :
              correctionReturns(r, a, Ticks, MaxLifecycleCalls, MaxLifecycleCalls)
        \/ resumeCorrected(r)
        \/ resumeFormatted(r)
        \/ retire(r)

SpecLifecycle == Init /\ [][NextLifecycle]_vars

(***************************************************************************)
(* SpecFormat: formatAddress on its own, on addresses listed from known    *)
(* segments and on addresses that are noise                                *)
(***************************************************************************)

\* the longest list of segments of an address
MaxSegments == 5

wordAllenAvenue == <<"A","l","l","e","n"," ","A","v","e","n","u","e">>

wordAllenAve == <<"A","l","l","e","n"," ","A","v","e">>

wordIkeja == <<"I","k","e","j","a">>

wordLagos == <<"L","a","g","o","s">>

wordNigeria == <<"N","i","g","e","r","i","a">>

wordGraDistrict == <<"G","R","A"," ","d","i","s","t","r","i","c","t">>

wordGraArea == <<"G","R","A"," ","a","r","e","a">>

wordOldQuarter == <<"O","l","d"," ","Q","u","a","r","t","e","r">>

\* the segments that hold a neighbourhood keyword
KeywordWords == {wordGraDistrict, wordGraArea, wordOldQuarter}

\* the segments the addresses are listed from
SegmentWords == {wordAllenAvenue, wordIkeja, wordLagos, wordGraDistrict}

\* the lists of at most n segments
SegmentLists(n) == UNION {[1..k -> SegmentWords] : k \in 0..n}

\* the address that lists the segments, separated by ", "
RECURSIVE Listed(_)
Listed(segs) ==
    IF segs = <<>> THEN <<>>
    ELSE IF Len(segs) = 1 THEN segs[1]
    ELSE segs[1] \o <<",", " ">> \o Listed(Tail(segs))

\* a call of formatAddress(address) about to be made, with a string for
\* argument; clean: the address is the list of its segments, free of house
\* numbers, prefixes and fillers
newCall(segments, clean, address) ==
    [pc |-> "ready", segments |-> segments, clean |-> clean,
     address |-> Some(address), formatted |-> undefined, again |-> undefined]

\* formatAddress(undefined) about to be called: what handleSearch and
\* handleFormatAddress pass when the result of the correction has no
\* correctedAddress
callWithoutAddress ==
    [pc |-> "ready", segments |-> <<>>, clean |-> FALSE,
     address |-> undefined, formatted |-> undefined, again |-> undefined]

addrEmpty == <<>>

addrSeparators == <<" ", ",", " ", "/", " ", "\\", " ">>

addrNumbers == <<"N","o","."," ","1","2","a",","," ","n","u","m","b","e","r"," ","7"," ","/"," ","4","5">>

addrPrefixed == <<"O","f","f"," ","t","h","e"," ","A","l","l","e","n"," ","A","v","e","n","u","e",","," ","n","e","a","r"," ","I","k","e","j","a",","," ","o","p","p","o","s","i","t","e"," ","1","2","b"," ","L","a","g","o","s">>

\* "\r\nAllen<U+00A0>Avenue,\fnear<U+000B>Ikeja @ 5;\r\n": white space other
\* than the space, and characters that a URL escapes
addrSpaced == <<"\r","\n","A","l","l","e","n","U+00A0","A","v","e","n","u","e",",","\f","n","e","a","r","U+000B","I","k","e","j","a"," ","@"," ","5",";","\r","\n">>

\* the segments of addrFull and of addrBackslash
segmentsFull == <<wordAllenAve, wordGraArea, wordIkeja, wordLagos>>

segmentsBackslash == <<wordAllenAvenue, wordOldQuarter>>

\* "Allen Avenue \ Old Quarter"
addrBackslash == <<"A","l","l","e","n"," ","A","v","e","n","u","e"," ","\\"," ","O","l","d"," ","Q","u","a","r","t","e","r">>

\* lists with each keyword in the second segment, and with a keyword in a
\* later segment only
KeywordLists ==
    {<<wordAllenAvenue, k>> \o rest :
        k \in KeywordWords,
        rest \in {<<>>, <<wordIkeja>>, <<wordIkeja, wordLagos>>,
                  <<wordIkeja, wordLagos, wordNigeria>>}}
    \cup {<<wordAllenAvenue, wordIkeja, wordLagos, wordGraArea, wordNigeria>>}

\* the examples of four and five segments
exampleNonShift == <<wordAllenAvenue, wordIkeja, wordLagos, wordNigeria>>

exampleShift == <<wordAllenAvenue, wordGraDistrict, wordIkeja, wordLagos, wordNigeria>>

\* the addresses listed from the segments, the examples, the lists with a
\* keyword, and addresses with a shortened street or with the other separator
ListedCalls ==
    {newCall(s, TRUE, Listed(s)) :
        s \in SegmentLists(MaxSegments) \cup KeywordLists
               \cup {exampleNonShift, exampleShift}}
    \cup {newCall(segmentsFull, TRUE, addrFull),
          newCall(segmentsBackslash, TRUE, addrBackslash)}

\* addresses with noise, and addresses that are nothing but noise
NoisyCalls ==
    {newCall(<<>>, FALSE, a) :
        a \in {addrTown, addrNoise, addrEmpty, addrSeparators, addrNumbers,
               addrPrefixed, addrSpaced}}
    \cup {callWithoutAddress}

InitFormat == InitAgent /\ call \in ListedCalls \cup NoisyCalls

\* formatAddress(address) returns, or throws at address.toLowerCase (line 131)
decompose ==
    /\ call.pc = "ready"
    /\ call' = IF formatThrows(call.address)
               THEN [call EXCEPT !.pc = "threw"]
               ELSE [call EXCEPT !.pc = "decomposed",
                                 !.formatted = Some(formatAddress(call.address[1]))]
    /\ UNCHANGED <<state, req, clock, tally, log>>

\* formatAddress is called on the formattedQuery it returned
decomposeAgain ==
    /\ call.pc = "decomposed"
    /\ call' = [call EXCEPT !.pc = "again",
                            !.again = Some(formatAddress(call.formatted[1].formattedQuery))]
    /\ UNCHANGED <<state, req, clock, tally, log>>

NextFormat == decompose \/ decomposeAgain

SpecFormat == InitFormat /\ [][NextFormat]_vars

(***************************************************************************)
(* Properties.  What a property expects is written from the replies the    *)
(* request received (req[r].replies, req[r].aiReply) and from the queries  *)
(* it fetched (req[r].fetched).                                            *)
(***************************************************************************)

Min(a, b) == IF a <= b THEN a ELSE b

IsPrefix(s, t) == Len(s) <= Len(t) /\ \A i \in 1..Len(s) : s[i] = t[i]

\* init() has run once, before any request arrived: the lifecycle of the
\* stats (initialised once at process start)
StartedOnce == tally.inits = "once" /\ ~tally.cold

\* the provider answered with a list of match records
IsList(reply) == ~reply.rejects /\ reply.body = "array"

\* the call failed: the provider was unreachable or its body was no JSON
CallFailed(reply) == reply.rejects \/ reply.body = "invalid"

\* request r is a /search request whose decomposition is done
InCascade(r) == req[r].route = "/search" /\ req[r].formatted # undefined

\* request r is a /search request answered with a 200 response
Answered(r) ==
    /\ req[r].route = "/search"
    /\ req[r].pc = "done"
    /\ req[r].response[1].status = 200

\* the primary call of r returned a list of at least / fewer than 2 results
PrimaryEnough(r) ==
    /\ Len(req[r].replies) >= 1
    /\ IsList(req[r].replies[1])
    /\ req[r].replies[1].count >= 2

PrimaryFew(r) ==
    /\ Len(req[r].replies) >= 1
    /\ IsList(req[r].replies[1])
    /\ req[r].replies[1].count < 2

TownPresent(r) == Truthy(req[r].formatted[1].alternativeQueries.townOnly)

NeighbourhoodPresent(r) ==
    Truthy(req[r].formatted[1].alternativeQueries.neighbourhoodOnly)

LocalGovernmentPresent(r) ==
    Truthy(req[r].formatted[1].alternativeQueries.localGovernmentOnly)

\* the queries of the cascade of r when the primary call under-delivers
FullCascade(r) ==
    <<generateNominatimUrl(req[r].formatted[1].formattedQuery)>>
    \o (IF TownPresent(r)
        THEN <<generateNominatimUrl(req[r].formatted[1].alternativeQueries.townOnly[1])>>
        ELSE <<>>)
    \o (IF NeighbourhoodPresent(r)
        THEN <<generateNominatimUrl(
                  req[r].formatted[1].alternativeQueries.neighbourhoodOnly[1])>>
        ELSE <<>>)

\* C1: in a /search request whose primary geocode call returned 2 or more
\* results, exactly one geocode call is issued, the request is answered at
\* once (no fallback query is sent) and its 200 response carries no
\* alternativeResults.
C1_EnoughResultsNoFallback ==
    \A r \in Reqs :
        (req[r].route = "/search" /\ PrimaryEnough(r))
        => /\ Len(req[r].fetched) = 1
           /\ Answered(r)
           /\ req[r].response[1].body[1].alternativeResults = undefined

\* C1 happens: both alternatives exist, the primary call returned 2 or more
\* results and the request is answered.
C1_Witness ==
    \E r \in Reqs :
        /\ InCascade(r) /\ PrimaryEnough(r) /\ req[r].pc = "done"
        /\ TownPresent(r) /\ NeighbourhoodPresent(r)

\* C2: in a /search request whose primary call returned fewer than 2 results,
\* the queries fetched are, in this order, the primary query, townOnly if
\* present, neighbourhoodOnly if present (at every moment a prefix of that
\* list); when no call of the request failed, the answered request has
\* fetched the whole list (1 plus the number of present alternatives),
\* whatever the fallbacks returned, and its response carries alternativeResults
\* exactly when a fallback was fetched, with the key town exactly when
\* townOnly is present and the key neighborhood exactly when neighbourhoodOnly
\* is present.
C2_FallbackOrder ==
    \A r \in Reqs :
        (InCascade(r) /\ PrimaryFew(r))
        => LET cascade == FullCascade(r) IN
           /\ IsPrefix(req[r].fetched, cascade)
           /\ (req[r].pc = "done" /\ \A i \in 1..Len(req[r].replies) :
                                        ~CallFailed(req[r].replies[i]))
              => /\ req[r].fetched = cascade
                 /\ Answered(r)
                 /\ LET alt == req[r].response[1].body[1].alternativeResults
                    IN  /\ (alt # undefined) <=> (Len(req[r].fetched) > 1)
                        /\ alt # undefined =>
                             /\ (alt[1].town # undefined) <=> TownPresent(r)
                             /\ (alt[1].neighborhood # undefined)
                                    <=> NeighbourhoodPresent(r)

\* C2 happens: both alternatives exist, the primary call returned fewer than 2
\* results, the townOnly call returned 2 or more, and neighbourhoodOnly was
\* fetched all the same: 3 calls, and both keys in the response.
C2_Witness ==
    \E r \in Reqs :
        /\ InCascade(r) /\ PrimaryFew(r) /\ Answered(r)
        /\ TownPresent(r) /\ NeighbourhoodPresent(r)
        /\ Len(req[r].fetched) = 3
        /\ IsList(req[r].replies[2]) /\ req[r].replies[2].count >= 2
        /\ req[r].response[1].body[1].alternativeResults[1].town # undefined
        /\ req[r].response[1].body[1].alternativeResults[1].neighborhood # undefined

\* C3: every /search request that reaches the cascade has fetched the query of
\* formatted.formattedQuery first (also when it is empty), and the results
\* field of every 200 response is the body of the reply to that first call,
\* whatever the fallbacks returned.
C3_PrimaryFirstAndKept ==
    \A r \in Reqs :
        InCascade(r)
        => /\ Len(req[r].fetched) >= 1
           /\ req[r].fetched[1] = generateNominatimUrl(req[r].formatted[1].formattedQuery)
           /\ Answered(r)
              => req[r].response[1].body[1].results
                    = bodyOf(req[r].fetched[1], req[r].replies[1])

\* C3 happens: the primary call returned no result, the townOnly call
\* returned some, and the request is answered.
C3_Witness ==
    \E r \in Reqs :
        /\ InCascade(r) /\ Answered(r)
        /\ IsList(req[r].replies[1]) /\ req[r].replies[1].count = 0
        /\ Len(req[r].replies) >= 2
        /\ IsList(req[r].replies[2]) /\ req[r].replies[2].count >= 1

\* C4: a /search request issues at most 3 geocode calls, each for
\* formattedQuery, townOnly or neighbourhoodOnly: none for
\* localGovernmentOnly, also when it is present and the primary call returned
\* fewer than 2 results.
C4_NoLocalGovernmentQuery ==
    \A r \in Reqs :
        req[r].route = "/search"
        => /\ Len(req[r].fetched) <= 3
           /\ req[r].formatted = undefined => req[r].fetched = <<>>
           /\ (req[r].formatted # undefined /\ req[r].fetched # <<>>) =>
                LET cascade == FullCascade(r)
                IN  \A i \in 1..Len(req[r].fetched) :
                        \E j \in 1..Len(cascade) :
                            req[r].fetched[i] = cascade[j]

\* C4 happens: localGovernmentOnly is present, the primary call returned fewer
\* than 2 results and the request is answered after 3 calls.
C4_Witness ==
    \E r \in Reqs :
        /\ InCascade(r) /\ PrimaryFew(r) /\ Answered(r)
        /\ LocalGovernmentPresent(r)
        /\ Len(req[r].fetched) = 3
        /\ \A i \in 1..3 :
              req[r].fetched[i] # generateNominatimUrl(
                  req[r].formatted[1].alternativeQueries.localGovernmentOnly[1])

\* C5: when a geocode call of a /search request fails, the request is over
\* with a 500 error response that carries no body, and the failed call is the
\* last one issued: no retry and no further call.
C5_FailureIsTerminal ==
    \A r \in Reqs :
        \A i \in 1..Len(req[r].replies) :
            CallFailed(req[r].replies[i])
            => /\ req[r].pc = "done"
               /\ req[r].response[1].status = 500
               /\ req[r].response[1].body = undefined
               /\ i = Len(req[r].replies)
               /\ Len(req[r].fetched) = i

\* C5 happens: the primary call returned a result, the townOnly call failed,
\* and neighbourhoodOnly, though present, was never fetched.
C5_Witness ==
    \E r \in Reqs :
        /\ InCascade(r) /\ req[r].pc = "done"
        /\ NeighbourhoodPresent(r)
        /\ Len(req[r].replies) = 2
        /\ IsList(req[r].replies[1]) /\ req[r].replies[1].count = 1
        /\ CallFailed(req[r].replies[2])

\* C6 as claimed: a /search request that received a geocode response with a
\* non-success status is answered with a 500 error, never with a 200.
C6_NonSuccessIs500 ==
    \A r \in Reqs :
        (/\ req[r].pc = "done"
         /\ \E i \in 1..Len(req[r].replies) :
               ~req[r].replies[i].rejects /\ ~req[r].replies[i].ok)
        => req[r].response[1].status = 500

\* the correction call failed: the provider threw, or the output of the model
\* was no JSON or lacked a field
CorrectionFailed(reply) ==
    \/ reply.rejects
    \/ reply.content # "object"
    \/ reply.correctedAddress = undefined
    \/ reply.corrections = undefined

\* C7 as claimed: after a failed correction call, correctAddress has returned
\* the input address with no corrections and confidence 0, and the request,
\* once answered, has decomposed the original text and is no error.
C7_FailureFallsBack ==
    \A r \in Reqs :
        (req[r].aiReply # undefined /\ CorrectionFailed(req[r].aiReply[1]))
        => /\ req[r].returned = Some(fallbackResult(req[r].input[1]))
           /\ req[r].pc = "done"
              => /\ ~req[r].response[1].threw
                 /\ req[r].response[1].status = 200
                 /\ req[r].formatted = Some(formatAddress(req[r].input[1]))


(***************************************************************************)
(* Properties of the stats, checked on long runs (SpecStats)               *)
(***************************************************************************)

\* the correction calls that returned with a parsed result: the model's
\* output was JSON with a corrections list
Parsed == tally.returned - tally.failed

\* C8: starting from the zeroed stats (init() has run once, before any
\* request), after N correction calls, whatever their outcome, K of which
\* yielded a non-empty corrections list, totalProcessed is N,
\* spellingCorrected is K and the history holds min(N, 100) entries.
C8_CountsEveryCall ==
    StartedOnce =>
    /\ state.correctionStats.totalProcessed = tally.returned
    /\ state.correctionStats.spellingCorrected = tally.nonEmpty
    /\ Len(state.processedAddresses) = Min(tally.returned, 100)

\* C9: on an agent whose init() has run once, before any request, the
\* history holds at most 100 entries: the most recent min(n, 100) of the n
\* entries recorded so far, in the order they were recorded.
C9_BoundedFifo ==
    StartedOnce =>
    /\ Len(state.processedAddresses) <= 100
    /\ Len(state.processedAddresses) = Min(Len(log), 100)
    /\ \A i \in 1..Len(state.processedAddresses) :
          state.processedAddresses[i]
             = log[Len(log) - Len(state.processedAddresses) + i]

\* C9 happens: 101 entries were recorded; the first is gone and the history
\* starts with the second.
C9_Witness ==
    /\ StartedOnce
    /\ Len(log) = 101
    /\ Len(state.processedAddresses) = 100
    /\ state.processedAddresses[1] = log[2]
    /\ state.processedAddresses[1] # log[1]
    /\ state.processedAddresses[100] = log[101]

\* the step in which GET /stats is answered in slot r
IsStatsStep(r) ==
    req[r].pc = "idle" /\ req'[r].pc = "done" /\ req'[r].route = "/stats"

\* C10: on an agent whose state is initialised, GET /stats answers 200 with
\* the three counters as they are and the last min(10, history length)
\* history entries in the order recorded, and it leaves the counters and the
\* history unchanged.
C10_StatsIsReadOnlyView ==
    [][\A r \in Reqs :
          (IsStatsStep(r) /\ state # noState)
          => /\ state' = state
             /\ req'[r].response[1].status = 200
             /\ LET body == req'[r].response[1].body[1]
                    h    == state.processedAddresses
                    n    == Min(10, Len(h))
                IN  /\ body.stats = state.correctionStats
                    /\ Len(body.recentAddresses) = n
                    /\ \A i \in 1..n :
                          body.recentAddresses[i] = h[Len(h) - n + i]]_vars

\* C10 happens: GET /stats was answered with a history longer than 10
\* entries: the view holds 10 of them.
C10_Witness ==
    \E r \in Reqs :
        /\ req[r].route = "/stats" /\ req[r].pc = "done"
        /\ state # noState
        /\ ~req[r].response[1].threw
        /\ Len(state.processedAddresses) > 10
        /\ Len(req[r].response[1].body[1].recentAddresses) = 10
        /\ req[r].response[1].body[1].stats.totalProcessed > 10

(***************************************************************************)
(* Validation of the request (C11)                                         *)
(***************************************************************************)

\* the step in which the required input of the request in slot r is found
\* missing (absent or empty): a GET /search arrives without q, or the body of
\* a POST /format-address has been read and holds no address; a body that is
\* no JSON is a malformed request, not a missing input
InputFoundMissing(r) ==
    /\ \/ req[r].pc = "idle" /\ req'[r].route = "/search"
       \/ req[r].pc = "reading" /\ req'[r].pc # "reading"
    /\ ~req'[r].malformed
    /\ ~Truthy(req'[r].input)

\* C11 as claimed: a request missing its required input is answered in the
\* step in which the input is found missing, with a 400 error response; no
\* correction call is started, no geocode call is issued, the counters and
\* the history are unchanged, and the answered request does nothing more.
C11_MissingInputIs400 ==
    [][/\ \A r \in Reqs :
            InputFoundMissing(r)
            => /\ req'[r].pc = "done"
               /\ ~req'[r].response[1].threw
               /\ req'[r].response[1].status = 400
               /\ req'[r].response[1].body = undefined
               /\ req'[r].aiReply = undefined
               /\ req'[r].fetched = <<>>
               /\ tally'.started = tally.started
               /\ state' = state
               /\ log' = log
       /\ \A r \in Reqs :
            req[r].pc = "done" => req'[r] \in {req[r], idleRequest}]_vars

(***************************************************************************)
(* Properties of formatAddress, checked on SpecFormat.  The segments of a  *)
(* clean address are known from the way it was listed (call.segments); a   *)
(* component is expected to be a segment in lower case.                    *)
(***************************************************************************)

\* formatAddress has returned for an address listed from known segments
Decomposed == call.pc \in {"decomposed", "again"} /\ call.clean

\* the segments a clean address was listed from are, in lower case, the
\* parts formatAddress splits it into (lines 131-152)
SegmentsAreParts ==
    (call.pc # "none" /\ call.clean)
    => parts(call.address[1])
          = [i \in 1..Len(call.segments) |-> toLowerCase(call.segments[i])]

\* segment[i - 1] as a component, absent when the address has no such segment
Segment(i) ==
    IF Len(call.segments) >= i THEN Some(toLowerCase(call.segments[i])) ELSE undefined

\* segment[1] holds a neighbourhood keyword
SecondHasKeyword == Len(call.segments) >= 2 /\ call.segments[2] \in KeywordWords

\* the five components of a FormattedAddress, in the fixed order
Components(f) == <<f.street, f.neighbourhood, f.town, f.localGovernment, f.state>>

\* the components that are present, listed with ", "
ListedPresent(cs) ==
    LET present == SelectSeq(cs, LAMBDA c : c # undefined)
    IN  Listed([i \in 1..Len(present) |-> present[i][1]])

\* the addresses that yield no segment
ZeroSegments ==
    \/ call.clean /\ call.segments = <<>>
    \/ ~call.clean /\ call.address \in {Some(addrNoise), Some(addrEmpty),
                                         Some(addrSeparators), Some(addrNumbers)}

\* C12 as claimed: when segment[1] holds no neighbourhood keyword, town is
\* segment[1], localGovernment is segment[2] if present, state is segment[3]
\* if present, and neighbourhood is absent.
C12_NonShiftRule ==
    (Decomposed /\ Len(call.segments) >= 2 /\ ~SecondHasKeyword)
    => /\ call.formatted[1].neighbourhood = undefined
       /\ call.formatted[1].town = Segment(2)
       /\ call.formatted[1].localGovernment = Segment(3)
       /\ call.formatted[1].state = Segment(4)

\* C13: when segment[1] holds a neighbourhood keyword, neighbourhood is
\* segment[1], town is segment[2] if present, localGovernment is segment[3]
\* if present and state is segment[4] if present.
C13_ShiftRule ==
    (Decomposed /\ SecondHasKeyword)
    => /\ call.formatted[1].neighbourhood = Segment(2)
       /\ call.formatted[1].town = Segment(3)
       /\ call.formatted[1].localGovernment = Segment(4)
       /\ call.formatted[1].state = Segment(5)

\* C13 happens: "Allen Avenue, GRA district, Ikeja, Lagos" gives
\* neighbourhood "gra district", town "ikeja", localGovernment "lagos" and no
\* state.
C13_Witness ==
    /\ call.pc = "decomposed"
    /\ call.address = Some(<<"A","l","l","e","n"," ","A","v","e","n","u","e",","," ","G","R","A"," ","d","i","s","t","r","i","c","t",","," ","I","k","e","j","a",","," ","L","a","g","o","s">>)
    /\ call.formatted[1].neighbourhood = Some(<<"g","r","a"," ","d","i","s","t","r","i","c","t">>)
    /\ call.formatted[1].town = Some(<<"i","k","e","j","a">>)
    /\ call.formatted[1].localGovernment = Some(<<"l","a","g","o","s">>)
    /\ call.formatted[1].state = undefined

\* the call of formatAddress is over: it returned or it threw
Called == call.pc \in {"decomposed", "again", "threw"}

\* C14: formatAddress returns a value for every string (it does not throw);
\* formattedQuery is the list, separated by ", ", of the components present
\* in the value returned, in the order street, neighbourhood, town,
\* localGovernment, state; no component is an empty string; an address that
\* yields no segment gives no component and the empty formattedQuery.
C14_QueryListsComponents ==
    (Called /\ call.address # undefined)
    => /\ call.pc # "threw"
       /\ call.formatted # undefined
       /\ call.formatted[1].formattedQuery
             = ListedPresent(Components(call.formatted[1]))
       /\ \A i \in 1..5 : Components(call.formatted[1])[i] # Some(<<>>)
       /\ ZeroSegments
          => /\ \A i \in 1..5 : Components(call.formatted[1])[i] = undefined
             /\ call.formatted[1].formattedQuery = <<>>

\* C14 happens: "Allen Avenue, GRA district, Ikeja, Lagos, Nigeria" gives the
\* five components, and formattedQuery lists them all.
C14_Witness ==
    /\ call.pc = "decomposed"
    /\ call.segments = exampleShift
    /\ \A i \in 1..5 : Components(call.formatted[1])[i] # undefined
    /\ call.formatted[1].formattedQuery
          = <<"a","l","l","e","n"," ","a","v","e","n","u","e",","," ","g","r","a"," ","d","i","s","t","r","i","c","t",","," ","i","k","e","j","a",","," ","l","a","g","o","s",","," ","n","i","g","e","r","i","a">>

\* C15 as claimed: for an address free of noise, formatAddress of the
\* formattedQuery assigns the five components as formatAddress of the address
\* did.
C15_Idempotent ==
    (call.pc = "again" /\ call.clean)
    => Components(call.again[1]) = Components(call.formatted[1])

(***************************************************************************)
(* Properties of concurrent requests, checked on SpecConcurrent            *)
(***************************************************************************)

\* the correction call of request r has returned with the parsed result: the
\* provider answered with a JSON object that has a corrections list
Recorded(r) ==
    /\ req[r].aiReply # undefined
    /\ ~req[r].aiReply[1].rejects
    /\ req[r].aiReply[1].content = "object"
    /\ req[r].aiReply[1].corrections # undefined

\* the correction calls of r1 and r2 both succeeded and were in flight
\* together: both were issued in the same agent state, before either wrote
\* its update
Raced(r1, r2) ==
    /\ r1 # r2
    /\ Recorded(r1) /\ Recorded(r2)
    /\ req[r1].before = req[r2].before

\* entry e of the history is the entry of request r
EntryOf(e, r) ==
    /\ e.original = req[r].input[1]
    /\ e.corrected = req[r].aiReply[1].correctedAddress

\* C16 as claimed: on an agent whose init() has run once, before any request,
\* two requests whose successful correction calls were in flight together
\* lose an update: totalProcessed is increased by 1 only, or
\* the history has gained one entry only.
C16_LostUpdate ==
    \A r1, r2 \in Reqs :
        (StartedOnce /\ Raced(r1, r2))
        => LET old == req[r1].before[1]
           IN  \/ state.correctionStats.totalProcessed
                    = old.correctionStats.totalProcessed + 1
               \/ Len(state.processedAddresses) = Len(old.processedAddresses) + 1

\* C16, amended: on an agent whose init() has run once, before any request,
\* no interleaving loses an update.  When the successful
\* correction calls of two requests were in flight together, totalProcessed
\* is increased by 2 and the history has gained the entries of both.
C16_NoLostUpdate ==
    \A r1, r2 \in Reqs :
        (StartedOnce /\ Raced(r1, r2))
        => LET old == req[r1].before[1]
               h   == state.processedAddresses
               n   == Len(old.processedAddresses)
           IN  /\ state.correctionStats.totalProcessed
                    = old.correctionStats.totalProcessed + 2
               /\ Len(h) = n + 2
               /\ SubSeq(h, 1, n) = old.processedAddresses
               /\ \/ EntryOf(h[n + 1], r1) /\ EntryOf(h[n + 2], r2)
                  \/ EntryOf(h[n + 1], r2) /\ EntryOf(h[n + 2], r1)

\* C16 happens: a /search and a /format-address request were issued in the
\* same agent state, the zeroed stats; both correction calls succeeded, the
\* /search request went through its geocode calls, both requests are
\* answered, and both corrections are counted.
C16_Witness ==
    \E r1, r2 \in Reqs :
        /\ StartedOnce
        /\ Raced(r1, r2)
        /\ req[r1].route = "/search" /\ req[r2].route = "/format-address"
        /\ req[r1].pc = "done" /\ req[r2].pc = "done"
        /\ Len(req[r1].fetched) = 2
        /\ req[r1].before = Some(initialState)
        /\ state.correctionStats.totalProcessed = 2

\* no request is in flight
AllFinished == \A r \in Reqs : req[r].pc \in {"idle", "done"}

\* C17: on an agent whose init() has run once, before any request: once all
\* requests in flight have finished, whatever their interleaving,
\* totalProcessed is the number of correction calls that
\* returned with a parsed result, and the history holds one entry for each of
\* them (the last 100 at most), in the order in which the calls returned.
C17_StatsReflectCompleted ==
    (StartedOnce /\ AllFinished)
    => /\ state.correctionStats.totalProcessed = Parsed
       /\ Len(log) = Parsed
       /\ Len(state.processedAddresses) = Min(Parsed, 100)
       /\ \A i \in 1..Len(state.processedAddresses) :
             state.processedAddresses[i]
                = log[Len(log) - Len(state.processedAddresses) + i]

\* C17 happens: two correction calls that were in flight together have
\* returned with a parsed result, in the order opposite to the one in which
\* they were issued, and no request is in flight any more.
C17_Witness ==
    /\ StartedOnce
    /\ AllFinished
    /\ tally.returned = 2
    /\ tally.failed = 0
    /\ \E r1, r2 \in Reqs :
          /\ Raced(r1, r2)
          /\ req[r1].route = "/search"
          /\ Len(state.processedAddresses) = 2
          /\ EntryOf(state.processedAddresses[1], r2)
          /\ EntryOf(state.processedAddresses[2], r1)

(***************************************************************************)
(* Stats and the cascade (C18), checked on Spec: one request at a time, so *)
(* that every change of the stats is the request's own                     *)
(***************************************************************************)

\* C18: on an agent whose init() has run once, before any request, a /search
\* request changes the stats at most once, when its
\* correction call returns: from then on, before the first geocode call and
\* after each of the 1 to 3 geocode calls, whether they succeed or fail, the
\* stats are those found when the call was issued plus the one update of a
\* parsed correction (one more in totalProcessed, one more entry in the
\* history), or those found unchanged when the correction failed.
C18_StatsOncePerSearch ==
    \A r \in Reqs :
        (StartedOnce /\ req[r].route = "/search" /\ req[r].before # undefined)
        => LET old == req[r].before[1]
               h   == state.processedAddresses
               n   == Len(old.processedAddresses)
           IN  IF Recorded(r)
               THEN /\ state.correctionStats.totalProcessed
                          = old.correctionStats.totalProcessed + 1
                    /\ state.correctionStats.spellingCorrected
                          \in {old.correctionStats.spellingCorrected,
                               old.correctionStats.spellingCorrected + 1}
                    /\ Len(h) = n + 1
                    /\ SubSeq(h, 1, n) = old.processedAddresses
                    /\ EntryOf(h[n + 1], r)
               ELSE state = old

\* C18 happens: the correction of a /search request was recorded, the
\* request issued 3 geocode calls, the last of which failed, and it is
\* answered.
C18_Witness ==
    \E r \in Reqs :
        /\ StartedOnce
        /\ req[r].route = "/search" /\ req[r].pc = "done"
        /\ Recorded(r)
        /\ Len(req[r].replies) = 3
        /\ CallFailed(req[r].replies[3])
        /\ state.correctionStats.totalProcessed = 1
        /\ Len(state.processedAddresses) = 1

(***************************************************************************)
(* Parsing of the model's output in correctAddress (C19), checked on Spec  *)
(***************************************************************************)

\* the model answered with the object of the three fields, in one of the
\* three shapes: its JSON text, the object itself, or the text inside prose
InToleratedShape(reply) ==
    /\ ~reply.rejects
    /\ reply.content \in {"object", "structured", "embedded"}
    /\ reply.correctedAddress # undefined
    /\ reply.corrections # undefined
    /\ reply.confidence # undefined

\* C19 as claimed: on an agent whose init() has run once, before any request,
\* the output of the model is accepted in each of the three shapes: correctAddress returns the object the model gave, and falls back
\* to the input address with confidence 0 for no such output.
C19_AcceptsThreeShapes ==
    \A r \in Reqs :
        (/\ StartedOnce
         /\ req[r].correction # undefined
         /\ InToleratedShape(req[r].aiReply[1]))
        => /\ req[r].correction[1].correctedAddress
                 = req[r].aiReply[1].correctedAddress
           /\ req[r].correction[1].corrections = req[r].aiReply[1].corrections
           /\ req[r].correction[1].confidence = req[r].aiReply[1].confidence

(***************************************************************************)
(* Failed correction calls (C20), checked on Spec                          *)
(***************************************************************************)

\* the correction call failed: the provider call threw, the output of the
\* model did not parse, or the parsed output has no corrections list
CallFailedToCorrect(reply) ==
    \/ reply.rejects
    \/ reply.content \in {"invalid", "structured", "embedded"}
    \/ reply.content = "null"
    \/ reply.content = "object" /\ reply.corrections = undefined

\* the step in which the correction call of request r returns
CorrectionReturned(r) == req[r].pc = "correcting" /\ req'[r].pc # "correcting"

\* C20: the step in which a correction call returns failed leaves the three
\* counters and the history as they were.
C20_FailureLeavesStats ==
    [][\A r \in Reqs :
          (CorrectionReturned(r) /\ CallFailedToCorrect(req'[r].aiReply[1]))
          => state' = state]_vars

\* C20 happens: a correction call whose parsed output has no corrections
\* list has returned on an agent whose state is initialised, and the counters
\* and the history are as the request found them.
C20_Witness ==
    \E r \in Reqs :
        /\ req[r].pc = "corrected"
        /\ req[r].aiReply[1].content = "object"
        /\ req[r].aiReply[1].corrections = undefined
        /\ state = initialState
        /\ state = req[r].before[1]

(***************************************************************************)
(* Invariants of the stats (C21), checked on SpecStatsConcurrent           *)
(***************************************************************************)

\* C21: in every state reached once the state is initialised,
\* spellingCorrected is at most totalProcessed, the history holds min(totalProcessed, 100) entries, and
\* missingComponentsAdded is 0.
C21_StatsInvariants ==
    state # noState =>
    /\ state.correctionStats.spellingCorrected <= state.correctionStats.totalProcessed
    /\ Len(state.processedAddresses) = Min(state.correctionStats.totalProcessed, 100)
    /\ state.correctionStats.missingComponentsAdded = 0

\* C21 happens: more than 100 corrections were recorded, some but not all
\* with corrections, one call failed, and the last two recorded calls were
\* in flight together.
C21_Witness ==
    /\ state # noState
    /\ state.correctionStats.totalProcessed > 100
    /\ Len(state.processedAddresses) = 100
    /\ state.correctionStats.spellingCorrected >= 1
    /\ state.correctionStats.spellingCorrected < state.correctionStats.totalProcessed
    /\ tally.failed >= 1
    /\ \E r1, r2 \in Reqs : Raced(r1, r2)
====
